---- MODULE Spec2Model ----
(***************************************************************************)
(* Model of the KSC lowering engine (src/main.rs): the Compiler struct,    *)
(* its scope stack, the function-name table, the LLVM module it owns and   *)
(* the builder's insertion cursor.  Every action is one call of a method   *)
(* of Compiler; a panic ends the run (last.ok = FALSE).                    *)
(***************************************************************************)
EXTENDS Integers, Sequences, FiniteSets, TLC

VARIABLES module, blocks, builder, stack_function, stack, ifstack, calls, last

vars == <<module, blocks, builder, stack_function, stack, ifstack, calls, last>>

(***************************************************************************)
(* Bounds of the exploration.                                              *)
(***************************************************************************)
MaxBlocks == 7
MaxCalls == 4
MaxIfDepth == 2
MaxScopeTypes == 3
MaxCallSteps == 6

(***************************************************************************)
(* Input alphabets.                                                        *)
(***************************************************************************)
FuncNames == {"f", "g"}
TypeNames == {"Number", "Undef"}
ParamLists == {<< <<"Number">>, <<"a">> >>, << <<"Number">>, <<>> >>,
               << <<"Undef">>, <<"a">> >>}
DeclareRets == {"void", "fn"}
DeclareParams == {<<"f64">>, <<"void">>}
Value(ty, const) == [ty |-> ty, const |-> const]
OperandPairs == {<<Value("i32", FALSE), Value("i32", FALSE)>>,
                 <<Value("i32", TRUE), Value("i32", TRUE)>>,
                 <<Value("i32", FALSE), Value("f64", FALSE)>>,
                 <<Value("f64", FALSE), Value("i32", FALSE)>>}
MergeInputs == {<<Value("i32", FALSE), Value("i32", FALSE), "i32">>,
                <<Value("i32", FALSE), Value("i1", FALSE), "i32">>,
                <<Value("i32", FALSE), Value("f64", FALSE), "i32">>,
                <<Value("i32", FALSE), Value("i32", FALSE), "Undef">>}
CondValues == {Value("i1", FALSE)}
Operators == {"add", "sub", "mul", "div", "rem"}
CallNames == FuncNames \cup {"h", "f.1"}
CallArgs == {<<Value("f64", FALSE)>>}
ReturnValues == {[some |-> TRUE, val |-> Value("f64", FALSE)],
                 [some |-> FALSE, val |-> Value("void", FALSE)]}
CompareInputs == {<<"EQUAL", Value("i32", FALSE), Value("i32", FALSE)>>,
                  <<"LESS_THAN", Value("f64", FALSE), Value("f64", FALSE)>>,
                  <<"EQUAL", Value("i32", FALSE), Value("f64", FALSE)>>}

(***************************************************************************)
(* KSCType: a name and the LLVM type it refers to.                         *)
(***************************************************************************)
KSCType(name, reference) == [name |-> name, reference |-> reference]

NoType == KSCType("", "")

\* Variant of AnyTypeEnum / BasicValueEnum that an LLVM type belongs to.
discriminant(reference) ==
    CASE reference = "f64" -> "Float"
      [] reference \in {"i32", "i1"} -> "Int"
      [] reference = "void" -> "Void"
      [] reference = "fn" -> "Function"
      [] OTHER -> "None"

\* scope.types.iter().find(|ksct| ksct.name == name)
find(types, name) ==
    LET hits == {i \in 1..Len(types) : types[i].name = name}
    IN  IF hits = {}
        THEN [some |-> FALSE, val |-> NoType]
        ELSE [some |-> TRUE,
              val |-> types[CHOOSE i \in hits : \A j \in hits : i <= j]]

\* The order in which "for scope in &self.stack" visits the scopes.
ScopeOrder(stk) == [i \in 1..Len(stk) |-> i]

RECURSIVE SearchScopes(_, _, _, _)
SearchScopes(stk, order, name, k) ==
    IF k > Len(order)
    THEN [some |-> FALSE, val |-> NoType]
    ELSE LET found == find(stk[order[k]].types, name)
         IN  IF found.some THEN found
             ELSE SearchScopes(stk, order, name, k + 1)

get_ksctype_from_name(stk, name) == SearchScopes(stk, ScopeOrder(stk), name, 1)

\* self.stack.last_mut().unwrap().types.push(ksctype)
insert_new_type_to_stack(stk, ksctype) ==
    [stk EXCEPT ![Len(stk)].types = Append(@, ksctype)]

PrimitiveTypes == <<KSCType("Number", "f64"), KSCType("i32", "i32"),
                    KSCType("bool", "i1"), KSCType("void", "void")>>

RECURSIVE InsertAll(_, _, _)
InsertAll(stk, types, k) ==
    IF k > Len(types) THEN stk
    ELSE InsertAll(insert_new_type_to_stack(stk, types[k]), types, k + 1)

init_primitive_types(stk) == InsertAll(stk, PrimitiveTypes, 1)

(***************************************************************************)
(* The LLVM module: functions in creation order, each with its blocks.     *)
(* A function keeps the name the symbol table gave it and the name it was  *)
(* asked for.  Blocks live in one table indexed by handle.                 *)
(***************************************************************************)
NoModule == [some |-> FALSE, functions |-> <<>>, last_unique |-> 0]

\* The name the symbol table tries for a taken name: "<name>.<n>".
FnName(base, suffix) == base \o "." \o ToString(suffix)

\* module.get_function(name): the function carrying exactly that name.
get_function(m, name) ==
    LET hits == {i \in 1..Len(m.functions) : m.functions[i].name = name}
    IN  IF hits = {} THEN 0 ELSE CHOOSE i \in hits : TRUE

\* The symbol table's search for a free name: the counter is incremented
\* and appended to the requested name until the result is not taken.
RECURSIVE UniqueName(_, _, _)
UniqueName(m, name, uniq) ==
    IF get_function(m, FnName(name, uniq + 1)) = 0
    THEN [name |-> FnName(name, uniq + 1), uniq |-> uniq + 1]
    ELSE UniqueName(m, name, uniq + 1)

\* module.add_function(name, fn_type, None)
add_function(m, name, ret, params) ==
    LET taken == get_function(m, name) # 0
        given == IF taken THEN UniqueName(m, name, m.last_unique)
                 ELSE [name |-> name, uniq |-> m.last_unique]
    IN  [m EXCEPT !.functions = Append(@, [name |-> given.name, asked |-> name,
                                           ret |-> ret, params |-> params,
                                           blocks |-> <<>>]),
                  !.last_unique = given.uniq]

\* context.append_basic_block(func, label)
NewBlock(label) == [live |-> TRUE, label |-> label, instrs |-> <<>>]

\* What is left of a block once the module owning it is dropped.
DisposedBlock == [live |-> FALSE, label |-> "", instrs |-> <<>>]

append_basic_block(m, f, b) == [m EXCEPT !.functions[f].blocks = Append(@, b)]

\* A handle to a block of a module that has been dropped.
Dangling(bs, cur) == cur # 0 /\ ~bs[cur].live

\* builder.build_*: append at the cursor; without a cursor the instruction
\* is created but inserted nowhere.
Emit(bs, cur, instrs) ==
    IF cur = 0 \/ ~bs[cur].live THEN bs
    ELSE [bs EXCEPT ![cur].instrs = @ \o instrs]

\* Outcomes of a call that reads or writes through the given block handles:
\* through a dangling one it either faults or goes unnoticed.
UBOutcomes(bs, handles) ==
    IF \E h \in handles : Dangling(bs, h) THEN {"crash", "silent"} ELSE {"none"}

(***************************************************************************)
(* The Compiler and the block handles its caller holds (ifstack: for each  *)
(* if-expression in progress, innermost last, the blocks create_if_branch  *)
(* returned and the blocks its end_if_branch calls returned).              *)
(***************************************************************************)
Self == [module |-> module, blocks |-> blocks, builder |-> builder,
         stack_function |-> stack_function, stack |-> stack, ifstack |-> ifstack]

FrameHandles(fr) ==
    {fr.then_block, fr.else_block, fr.cont_block, fr.then_exit, fr.else_exit} \ {0}

\* Dangling handles still held by the caller's if-expressions.
HeldDeadFrames(c) ==
    {h \in UNION {FrameHandles(c.ifstack[i]) : i \in 1..Len(c.ifstack)} :
        Dangling(c.blocks, h)}

\* Dangling handles still held by the builder or by the caller.
HeldDead(c) ==
    HeldDeadFrames(c) \cup (IF Dangling(c.blocks, c.builder) THEN {c.builder} ELSE {})

\* The allocator hands out the address of a freed block again: every holder
\* of the dangling handle d now refers to the new block n.
Redirect(c, d, n) ==
    IF d = 0 THEN c
    ELSE LET sw(h) == IF h = d THEN n ELSE h
         IN  [c EXCEPT !.builder = sw(c.builder),
                       !.ifstack = [i \in 1..Len(c.ifstack) |->
                           [c.ifstack[i] EXCEPT
                               !.then_block = sw(@), !.else_block = sw(@),
                               !.cont_block = sw(@), !.then_exit = sw(@),
                               !.else_exit = sw(@)]]]

\* context.append_basic_block(func, label) on the Compiler's state; d is the
\* freed address the new block is placed at (0: a fresh one).
Allocate(c, f, label, d) ==
    Redirect([c EXCEPT !.module = append_basic_block(@, f, Len(c.blocks) + 1),
                       !.blocks = Append(@, NewBlock(label))],
             d, Len(c.blocks) + 1)

(***************************************************************************)
(* Outcome of a call: the state it leaves behind and what it returned.     *)
(***************************************************************************)
Outcome(ok, err, c, func) == [ok |-> ok, err |-> err, c |-> c, func |-> func]

Crash(c) == Outcome(FALSE, "Crash", c, 0)

Called(op, o, blk, args) ==
    [op |-> op, ok |-> o.ok, err |-> o.err, func |-> o.func, blk |-> blk,
     args |-> args]

Running == last.ok

\* The state a call leaves behind; n is what it adds to the count of calls
\* other than the four steps of the if-expression.
Apply(o, n) ==
    /\ module' = o.c.module
    /\ blocks' = o.c.blocks
    /\ builder' = o.c.builder
    /\ stack_function' = o.c.stack_function
    /\ stack' = o.c.stack
    /\ ifstack' = o.c.ifstack
    /\ calls' = calls + n

Init ==
    /\ module = NoModule
    /\ blocks = <<>>
    /\ builder = 0
    /\ stack_function = <<>>
    /\ stack = <<[types |-> <<>>, values |-> <<>>]>>
    /\ ifstack = <<>>
    /\ calls = 0
    /\ last = [op |-> "new", ok |-> TRUE, err |-> "", func |-> 0, blk |-> 0,
               args |-> <<>>]

(***************************************************************************)
(* create_module: self.module = Some(context.create_module(name)).  The    *)
(* module held before is dropped, which disposes its functions and blocks; *)
(* the if-expressions in progress are left with handles into it.           *)
(***************************************************************************)
create_module(c) ==
    [c EXCEPT !.module = [some |-> TRUE, functions |-> <<>>, last_unique |-> 0],
              !.blocks = [b \in 1..Len(c.blocks) |-> DisposedBlock],
              !.ifstack = [i \in 1..Len(c.ifstack) |->
                             [c.ifstack[i] EXCEPT !.stale = TRUE]]]

CreateModule ==
    /\ Running
    /\ calls < MaxCalls
    /\ LET o == Outcome(TRUE, "", create_module(Self), 0)
       IN  /\ Apply(o, 1)
           /\ last' = Called("create_module", o, 0, <<>>)

\* A direct call of init_primitive_types.
InitPrimitiveTypes ==
    /\ Running
    /\ calls < MaxCalls
    /\ LET o == Outcome(TRUE, "", [Self EXCEPT !.stack = init_primitive_types(@)], 0)
       IN  /\ Apply(o, 1)
           /\ last' = Called("init_primitive_types", o, 0, <<>>)

(***************************************************************************)
(* create_function                                                         *)
(***************************************************************************)
\* The closure mapping each parameter type name to a BasicMetadataTypeEnum:
\* the error of the first name that fails, or "" when all resolve.
RECURSIVE ParamTypeError(_, _, _)
ParamTypeError(stk, param_types, k) ==
    IF k > Len(param_types) THEN ""
    ELSE LET t == get_ksctype_from_name(stk, param_types[k])
         IN  IF ~t.some THEN "UndefinedType"
             ELSE IF discriminant(t.val.reference) \in {"Void", "Function"}
                  THEN "InvalidParamType"
                  ELSE ParamTypeError(stk, param_types, k + 1)

RECURSIVE ParamRefs(_, _, _)
ParamRefs(stk, param_types, k) ==
    IF k > Len(param_types) THEN <<>>
    ELSE <<get_ksctype_from_name(stk, param_types[k]).val.reference>>
         \o ParamRefs(stk, param_types, k + 1)

\* for (i, arg) in func.get_param_iter().enumerate(): alloca + store
RECURSIVE ParamSlots(_, _, _)
ParamSlots(refs, param_names, k) ==
    IF k > Len(refs) THEN <<>>
    ELSE <<[op |-> "alloca", ty |-> refs[k], name |-> param_names[k]],
           [op |-> "store", ty |-> refs[k], name |-> param_names[k]]>>
         \o ParamSlots(refs, param_names, k + 1)

\* The function whose block list receives the entry block:
\* context.append_basic_block(func, name) with the handle add_function returned.
EntryOwnerByName(m, func, name) == get_function(m, name)

EntryOwner(m, func, name) == func

\* Where create_function records the name in the function-name table.
PushedName(sf, name) == Append(sf, name)

create_function(c, name, return_type, param_types, param_names, d) ==
    LET c1 == [c EXCEPT !.stack_function = PushedName(@, name)]
        perr == ParamTypeError(c.stack, param_types, 1)
        rt == get_ksctype_from_name(c.stack, return_type)
    IN  IF perr # ""
        THEN Outcome(FALSE, perr, c1, 0)
        ELSE IF ~rt.some
        THEN Outcome(FALSE, "UndefinedType", c1, 0)
        ELSE IF discriminant(rt.val.reference) = "Function"
        THEN Outcome(FALSE, "InvalidReturnType", c1, 0)
        ELSE IF ~c.module.some
        THEN Outcome(FALSE, "NoModule", c1, 0)
        ELSE LET refs == ParamRefs(c.stack, param_types, 1)
                 c2 == [c1 EXCEPT !.module = add_function(@, name, rt.val.reference, refs)]
                 func == Len(c2.module.functions)
                 func_bb == Len(c.blocks) + 1
                 c3 == Allocate(c2, EntryOwner(c2.module, func, name), name, d)
                 c4 == [c3 EXCEPT !.builder = func_bb]
             IN  IF Len(param_types) # Len(param_names)
                 THEN Outcome(FALSE, "ParameterCountMismatch", c4, 0)
                 ELSE Outcome(TRUE, "",
                              [c4 EXCEPT !.blocks = Emit(@, func_bb,
                                             ParamSlots(refs, param_names, 1))],
                              func)

CreateFunction ==
    /\ Running
    /\ calls < MaxCalls
    /\ Len(blocks) < MaxBlocks
    /\ \E name \in FuncNames, return_type \in TypeNames, p \in ParamLists,
          d \in {0} \cup HeldDeadFrames(Self) :
         LET o == create_function(Self, name, return_type, p[1], p[2], d)
         IN  /\ Apply(o, 1)
             /\ last' = Called("create_function", o, 0, <<>>)

(***************************************************************************)
(* create_function_declare                                                 *)
(***************************************************************************)
RECURSIVE DeclareParamError(_, _)
DeclareParamError(param_types, k) ==
    IF k > Len(param_types) THEN ""
    ELSE IF discriminant(param_types[k]) \in {"Void", "Function"}
         THEN "InvalidParamType"
         ELSE DeclareParamError(param_types, k + 1)

create_function_declare(c, name, return_type, param_types) ==
    IF DeclareParamError(param_types, 1) # ""
    THEN Outcome(FALSE, "InvalidParamType", c, 0)
    ELSE IF discriminant(return_type) = "Function"
    THEN Outcome(FALSE, "InvalidReturnType", c, 0)
    ELSE IF ~c.module.some
    THEN Outcome(FALSE, "NoModule", c, 0)
    ELSE LET m1 == add_function(c.module, name, return_type, param_types)
         IN  Outcome(TRUE, "",
                     [c EXCEPT !.module = m1, !.stack_function = Append(@, name)],
                     Len(m1.functions))

CreateFunctionDeclare ==
    /\ Running
    /\ calls < MaxCalls
    /\ \E name \in FuncNames, return_type \in DeclareRets, param_types \in DeclareParams :
         LET o == create_function_declare(Self, name, return_type, param_types)
         IN  /\ Apply(o, 1)
             /\ last' = Called("create_function_declare", o, 0, <<>>)

(***************************************************************************)
(* compile_expression: Function and VariableDeclaration                    *)
(***************************************************************************)
FunctionExprs ==
    {[kind |-> "Function", name |-> n, return_type |-> r,
      param_types |-> p[1], param_names |-> p[2]] :
        n \in FuncNames, r \in {"Number", "Undef"},
        p \in {<< <<"Number">>, <<"a">> >>, << <<"Number">>, <<>> >>}}

Expressions ==
    FunctionExprs \cup
    {[kind |-> "VariableDeclaration", typename |-> t, name |-> "v", value |-> e] :
        t \in {"Function", "Number", "Undef"}, e \in FunctionExprs}

RECURSIVE compile_expression(_, _, _)
compile_expression(c, expression, d) ==
    IF expression.kind = "Function"
    THEN [o |-> create_function(c, expression.name, expression.return_type,
                                expression.param_types, expression.param_names, d),
          valuetype |-> "Function"]
    ELSE LET executed == compile_expression(c, expression.value, d)
             found == get_ksctype_from_name(c.stack, expression.typename)
         IN  IF ~executed.o.ok THEN executed
             ELSE IF executed.valuetype = "Function" THEN executed
             ELSE IF ~found.some
                  THEN [executed EXCEPT !.o.ok = FALSE, !.o.err = "UndefinedType", !.o.func = 0]
             ELSE IF found.val.name # executed.valuetype
                  THEN [executed EXCEPT !.o.ok = FALSE, !.o.err = "TypeMismatch", !.o.func = 0]
             ELSE executed

CompileExpression ==
    /\ Running
    /\ calls < MaxCalls
    /\ Len(blocks) < MaxBlocks
    /\ \E expression \in Expressions, d \in {0} \cup HeldDeadFrames(Self) :
         LET r == compile_expression(Self, expression, d)
         IN  /\ Apply(r.o, 1)
             /\ last' = Called("compile_expression", r.o, 0, <<>>)

(***************************************************************************)
(* build: init_primitive_types, then compile_expression for every          *)
(* expression of the program in order; the first panic ends it.            *)
(***************************************************************************)
ProgramExprs ==
    {[kind |-> "VariableDeclaration", typename |-> "Function", name |-> n,
      value |-> [kind |-> "Function", name |-> n, return_type |-> r,
                 param_types |-> <<"Number">>, param_names |-> <<"a">>]] :
        n \in FuncNames, r \in TypeNames}

Programs == UNION {[1..n -> ProgramExprs] : n \in 0..MaxCalls}

RECURSIVE BuildLoop(_, _, _, _)
BuildLoop(c, program, ds, k) ==
    IF k > Len(program) THEN Outcome(TRUE, "", c, 0)
    ELSE LET r == compile_expression(c, program[k], ds[k])
         IN  IF ~r.o.ok THEN r.o
             ELSE BuildLoop(r.o.c, program, ds, k + 1)

build(c, program, ds) ==
    BuildLoop([c EXCEPT !.stack = init_primitive_types(@)], program, ds, 1)

Build ==
    /\ Running
    /\ calls < MaxCalls
    /\ \E program \in Programs :
         /\ calls + 1 + Len(program) <= MaxCalls
         /\ Len(blocks) + Len(program) <= MaxBlocks
         /\ \E ds \in [1..Len(program) -> {0} \cup HeldDeadFrames(Self)] :
              LET o == build(Self, program, ds)
              IN  /\ Apply(o, 1 + Len(program))
                  /\ last' = Called("build", o, 0, <<Len(program)>>)

(***************************************************************************)
(* The if-expression: create_if_branch, start_if_branch, end_if_branch,    *)
(* merge_if_branch.                                                        *)
(***************************************************************************)
\* self.stack_function.last(), then module.get_function(parent_func_name)
ParentFunction(sf, m) == get_function(m, sf[Len(sf)])

create_if_branch(c, condition_bool, ds, ub) ==
    LET icmp == IF condition_bool.const THEN <<>> ELSE <<[op |-> "icmp"]>>
        c1 == [c EXCEPT !.blocks = Emit(@, c.builder, icmp)]
        n == Len(c.blocks)
    IN  IF icmp # <<>> /\ Dangling(c.blocks, c.builder) /\ ub = "crash"
        THEN Crash(c)
        ELSE IF c.stack_function = <<>>
        THEN Outcome(FALSE, "NoEnclosingFunction", c1, 0)
        ELSE IF ~c.module.some
        THEN Outcome(FALSE, "NoModule", c1, 0)
        ELSE IF ParentFunction(c.stack_function, c.module) = 0
        THEN Outcome(FALSE, "NoEnclosingFunction", c1, 0)
        ELSE LET parent == ParentFunction(c.stack_function, c.module)
                 c2 == Allocate(c1, parent, "then", ds[1])
                 c3 == Allocate(c2, parent, "else", ds[2])
                 c4 == Allocate(c3, parent, "ifcont", ds[3])
                 br == [op |-> "condbr", then_block |-> n + 1, else_block |-> n + 2]
             IN  IF Dangling(c4.blocks, c4.builder) /\ ub = "crash"
                 THEN Crash(c)
                 ELSE Outcome(TRUE, "",
                              [c4 EXCEPT !.blocks = Emit(@, c4.builder, <<br>>)],
                              parent)

InBranch == IF ifstack = <<>> THEN TRUE
            ELSE ifstack[Len(ifstack)].phase \in {"then", "else"}

\* The freed addresses the three new blocks may be placed at.
ReuseChoices(c) ==
    {ds \in [1..3 -> {0} \cup HeldDead(c)] :
        \A i, j \in 1..3 : (i # j /\ ds[i] # 0) => ds[i] # ds[j]}

CreateIfBranch ==
    /\ Running
    /\ InBranch
    /\ Len(ifstack) < MaxIfDepth
    /\ Len(blocks) + 3 <= MaxBlocks
    /\ \E condition_bool \in CondValues, ds \in ReuseChoices(Self),
          ub \in UBOutcomes(blocks, {builder}) :
         LET o == create_if_branch(Self, condition_bool, ds, ub)
             n == Len(blocks)
             frame == [then_block |-> n + 1, else_block |-> n + 2,
                       cont_block |-> n + 3, phase |-> "created",
                       then_exit |-> 0, else_exit |-> 0, stale |-> FALSE]
         IN  /\ Apply(IF o.ok THEN [o EXCEPT !.c.ifstack = Append(@, frame)] ELSE o,
                      0)
             /\ last' = Called("create_if_branch", o, IF o.ok THEN n + 3 ELSE 0, <<>>)

\* builder.position_at_end(*branch)
start_if_branch(branch) == branch

StartIfBranch ==
    /\ Running
    /\ ifstack # <<>>
    /\ LET top == ifstack[Len(ifstack)]
           branch == IF top.phase = "created" THEN top.then_block ELSE top.else_block
           o == Outcome(TRUE, "",
                        [Self EXCEPT !.builder = start_if_branch(branch),
                                     !.ifstack[Len(ifstack)].phase =
                                         IF top.phase = "created" THEN "then" ELSE "else"],
                        0)
       IN  /\ top.phase \in {"created", "then_done"}
           /\ Apply(o, 0)
           /\ last' = Called("start_if_branch", o, branch, <<>>)

\* The block end_if_branch returns: builder.get_insert_block()
ExitBlockStarted(cur, branch) == branch

ExitBlock(cur, branch) == cur

end_if_branch(c, branch, ub) ==
    LET c1 == [c EXCEPT !.blocks = Emit(@, c.builder,
                                        <<[op |-> "br", target |-> branch]>>)]
    IN  IF (Dangling(c.blocks, c.builder) \/ Dangling(c.blocks, branch)) /\ ub = "crash"
        THEN Crash(c)
        ELSE IF c.builder = 0
        THEN Outcome(FALSE, "Panic", c1, 0)
        ELSE Outcome(TRUE, "", c1, 0)

EndIfBranch ==
    /\ Running
    /\ ifstack # <<>>
    /\ ifstack[Len(ifstack)].phase \in {"then", "else"}
    /\ \E ub \in UBOutcomes(blocks, {builder, ifstack[Len(ifstack)].cont_block}) :
         LET top == ifstack[Len(ifstack)]
             o == end_if_branch(Self, top.cont_block, ub)
             started == IF top.phase = "then" THEN top.then_block ELSE top.else_block
             exit == ExitBlock(builder, started)
             done == IF top.phase = "then"
                     THEN [o EXCEPT !.c.ifstack[Len(ifstack)].phase = "then_done",
                                    !.c.ifstack[Len(ifstack)].then_exit = exit]
                     ELSE [o EXCEPT !.c.ifstack[Len(ifstack)].phase = "else_done",
                                    !.c.ifstack[Len(ifstack)].else_exit = exit]
         IN  /\ Apply(IF o.ok THEN done ELSE o, 0)
             /\ last' = Called("end_if_branch", o, IF o.ok THEN exit ELSE 0, <<>>)

\* discriminant(then_value) != discriminant(else_value)
DifferentTypes(a, b) == discriminant(a.ty) # discriminant(b.ty)

\* Where merge_if_branch leaves the cursor: position_at_end(cont_block)
MergePositionKept(cur, cont_block) == cur

MergePosition(cur, cont_block) == cont_block

merge_if_branch(c, then_value, else_value, then_block, else_block, cont_block, typename, ub) ==
    LET c1 == [c EXCEPT !.builder = MergePosition(c.builder, cont_block)]
        rettype == get_ksctype_from_name(c.stack, typename)
    IN  IF DifferentTypes(then_value, else_value)
        THEN Outcome(FALSE, "TypeMismatch", c1, 0)
        ELSE IF ~rettype.some
        THEN Outcome(FALSE, "Panic", c1, 0)
        ELSE IF discriminant(rettype.val.reference) \in {"Void", "Function"}
        THEN Outcome(FALSE, "InvalidParamType", c1, 0)
        ELSE IF Dangling(c1.blocks, c1.builder) /\ ub = "crash"
        THEN Crash(c)
        ELSE LET phi == [op |-> "phi", ty |-> rettype.val.reference,
                         incoming |-> <<[val |-> then_value, blk |-> then_block],
                                        [val |-> else_value, blk |-> else_block]>>]
             IN  Outcome(TRUE, "",
                         [c1 EXCEPT !.blocks = Emit(@, c1.builder, <<phi>>)], 0)

MergeIfBranch ==
    /\ Running
    /\ ifstack # <<>>
    /\ ifstack[Len(ifstack)].phase = "else_done"
    /\ \E input \in MergeInputs,
          ub \in UBOutcomes(blocks, {ifstack[Len(ifstack)].cont_block}) :
         LET top == ifstack[Len(ifstack)]
             then_value == input[1]
             else_value == input[2]
             typename == input[3]
             o == merge_if_branch(Self, then_value, else_value, top.then_exit,
                                  top.else_exit, top.cont_block, typename, ub)
             popped == [o EXCEPT !.c.ifstack = SubSeq(ifstack, 1, Len(ifstack) - 1)]
         IN  /\ Apply(IF o.ok THEN popped ELSE o, 0)
             /\ last' = Called("merge_if_branch", o, top.cont_block,
                               <<then_value, else_value>>)

(***************************************************************************)
(* Instructions of a function body: create_binnary_operator,               *)
(* create_function_call, create_return, create_comparison_operator.        *)
(***************************************************************************)
create_binnary_operator_unchecked(c, op, left, right, ub) ==
    Outcome(TRUE, "",
            [c EXCEPT !.blocks = Emit(@, c.builder,
                                      <<[op |-> op, kind |-> discriminant(left.ty)]>>)],
            0)

create_binnary_operator(c, op, left, right, ub) ==
    IF discriminant(left.ty) # discriminant(right.ty)
    THEN Outcome(FALSE, "TypeMismatch", c, 0)
    ELSE IF discriminant(left.ty) \notin {"Int", "Float"}
    THEN Outcome(FALSE, "UnsupportedOperation", c, 0)
    ELSE LET ins == IF left.const /\ right.const THEN <<>>
                    ELSE <<[op |-> op, kind |-> discriminant(left.ty)]>>
         IN  IF ins # <<>> /\ Dangling(c.blocks, c.builder) /\ ub = "crash"
             THEN Crash(c)
             ELSE Outcome(TRUE, "", [c EXCEPT !.blocks = Emit(@, c.builder, ins)], 0)

CreateBinaryOperator ==
    /\ Running
    /\ calls < MaxCalls
    /\ \E op \in Operators, pair \in OperandPairs, ub \in UBOutcomes(blocks, {builder}) :
         LET left == pair[1]
             right == pair[2]
             o == create_binnary_operator(Self, op, left, right, ub)
         IN  /\ Apply(o, 1)
             /\ last' = Called("create_binnary_operator", o, 0, <<left, right>>)

\* self.stack_function.contains(&name)
contains(sf, name) == \E i \in 1..Len(sf) : sf[i] = name

CallInstr(func, args) == [op |-> "call", callee |-> func, nargs |-> Len(args)]

create_function_call(c, name, args, ub) ==
    IF ~contains(c.stack_function, name)
    THEN Outcome(FALSE, "UndefinedFunction", c, 0)
    ELSE IF ~c.module.some
    THEN Outcome(FALSE, "NoModule", c, 0)
    ELSE IF get_function(c.module, name) = 0
    THEN Outcome(FALSE, "UndefinedFunction", c, 0)
    ELSE IF Dangling(c.blocks, c.builder) /\ ub = "crash"
    THEN Crash(c)
    ELSE LET func == get_function(c.module, name)
         IN  Outcome(TRUE, "",
                     [c EXCEPT !.blocks = Emit(@, c.builder, <<CallInstr(func, args)>>)],
                     func)

CreateFunctionCall ==
    /\ Running
    /\ calls < MaxCalls
    /\ \E name \in CallNames, args \in CallArgs, ub \in UBOutcomes(blocks, {builder}) :
         LET o == create_function_call(Self, name, args, ub)
         IN  /\ Apply(o, 1)
             /\ last' = Called("create_function_call", o, 0, <<name>>)

\* builder.build_return(Some(value)) / builder.build_return(None)
create_return(c, value, ub) ==
    LET ret == [op |-> "ret", val |-> IF value.some THEN value.val.ty ELSE "void"]
    IN  IF Dangling(c.blocks, c.builder) /\ ub = "crash"
        THEN Crash(c)
        ELSE Outcome(TRUE, "", [c EXCEPT !.blocks = Emit(@, c.builder, <<ret>>)], 0)

CreateReturn ==
    /\ Running
    /\ calls < MaxCalls
    /\ \E value \in ReturnValues, ub \in UBOutcomes(blocks, {builder}) :
         LET o == create_return(Self, value, ub)
         IN  /\ Apply(o, 1)
             /\ last' = Called("create_return", o, 0, <<value>>)

\* match op { Predicate::EQUAL => IntPredicate::EQ, ... }
IntPredicate(op) ==
    CASE op = "EQUAL" -> "EQ"
      [] op = "NOT_EQUAL" -> "NE"
      [] op = "GREATER_THAN" -> "SGT"
      [] op = "GREATER_THAN_OR_EQUAL" -> "SGE"
      [] op = "LESS_THAN" -> "SLT"
      [] op = "LESS_THAN_OR_EQUAL" -> "SLE"

\* match op { Predicate::EQUAL => FloatPredicate::OEQ, ... }
FloatPredicate(op) ==
    CASE op = "EQUAL" -> "OEQ"
      [] op = "NOT_EQUAL" -> "ONE"
      [] op = "GREATER_THAN" -> "OGT"
      [] op = "GREATER_THAN_OR_EQUAL" -> "OGE"
      [] op = "LESS_THAN" -> "OLT"
      [] op = "LESS_THAN_OR_EQUAL" -> "OLE"

\* The compare (folded away when both operands are constants), then the
\* i1 slot "compared_val", the store into it and the load that is returned.
\* build_alloca reads the data layout through the insertion block: without
\* a cursor it dereferences a null pointer.
create_comparison_operator(c, op, left, right, ub) ==
    IF discriminant(left.ty) # discriminant(right.ty)
    THEN Outcome(FALSE, "TypeMismatch", c, 0)
    ELSE IF discriminant(left.ty) \notin {"Int", "Float"}
    THEN Outcome(FALSE, "NotComparable", c, 0)
    ELSE LET compare == IF discriminant(left.ty) = "Int"
                        THEN [op |-> "icmp", pred |-> IntPredicate(op)]
                        ELSE [op |-> "fcmp", pred |-> FloatPredicate(op)]
             ins == (IF left.const /\ right.const THEN <<>> ELSE <<compare>>)
                    \o <<[op |-> "alloca", ty |-> "i1", name |-> "compared_val"],
                         [op |-> "store", ty |-> "i1", name |-> "compared_val"],
                         [op |-> "load", ty |-> "i1"]>>
         IN  IF c.builder = 0 \/ (Dangling(c.blocks, c.builder) /\ ub = "crash")
             THEN Crash(c)
             ELSE Outcome(TRUE, "", [c EXCEPT !.blocks = Emit(@, c.builder, ins)], 0)

CreateComparisonOperator ==
    /\ Running
    /\ calls < MaxCalls
    /\ \E input \in CompareInputs, ub \in UBOutcomes(blocks, {builder}) :
         LET o == create_comparison_operator(Self, input[1], input[2], input[3], ub)
         IN  /\ Apply(o, 1)
             /\ last' = Called("create_comparison_operator", o, 0,
                               <<input[2], input[3]>>)

Next ==
    \/ CreateModule
    \/ InitPrimitiveTypes
    \/ Build
    \/ CreateFunction
    \/ CreateFunctionDeclare
    \/ CompileExpression
    \/ CreateIfBranch
    \/ StartIfBranch
    \/ EndIfBranch
    \/ MergeIfBranch
    \/ CreateBinaryOperator
    \/ CreateFunctionCall
    \/ CreateReturn
    \/ CreateComparisonOperator

Spec == Init /\ [][Next]_vars

(***************************************************************************)
(* Declaring and calling functions across a replaced module: the calls     *)
(* create_module, create_function_declare and create_function_call, with   *)
(* the declared names including one of the shape add_function generates.   *)
(***************************************************************************)
DeclareNames == {"f", FnName("f", 1)}

ModuleReplaced ==
    /\ Running
    /\ calls < MaxCallSteps
    /\ LET o == Outcome(TRUE, "", create_module(Self), 0)
       IN  /\ Apply(o, 1)
           /\ last' = Called("create_module", o, 0, <<>>)

FunctionDeclared ==
    /\ Running
    /\ calls < MaxCallSteps
    /\ \E name \in DeclareNames, return_type \in DeclareRets, param_types \in DeclareParams :
         LET o == create_function_declare(Self, name, return_type, param_types)
         IN  /\ Apply(o, 1)
             /\ last' = Called("create_function_declare", o, 0, <<>>)

FunctionCalled ==
    /\ Running
    /\ calls < MaxCallSteps
    /\ \E name \in CallNames, args \in CallArgs, ub \in UBOutcomes(blocks, {builder}) :
         LET o == create_function_call(Self, name, args, ub)
         IN  /\ Apply(o, 1)
             /\ last' = Called("create_function_call", o, 0, <<name>>)

NextCall == ModuleReplaced \/ FunctionDeclared \/ FunctionCalled

SpecCall == Init /\ [][NextCall]_vars

(***************************************************************************)
(* Type-name resolution on its own: the scope stack Compiler::new builds,  *)
(* extended by insert_new_type_to_stack and resolved by                    *)
(* get_ksctype_from_name.  Nothing adds a scope to the one new() creates.  *)
(***************************************************************************)
ResolveTypes == {KSCType("T", "f64"), KSCType("T", "i32"), KSCType("U", "f64")}
ResolveNames == {"T", "U", "V"}

InitResolve ==
    /\ module = NoModule
    /\ blocks = <<>>
    /\ builder = 0
    /\ stack_function = <<>>
    /\ stack = <<[types |-> <<>>, values |-> <<>>]>>
    /\ ifstack = <<>>
    /\ calls = 0
    /\ last = [op |-> "new", ok |-> TRUE, err |-> "", func |-> 0, blk |-> 0,
               args |-> <<>>]

ResolveTypeName ==
    /\ \E name \in ResolveNames :
         last' = [op |-> "get_ksctype_from_name", ok |-> TRUE, err |-> "",
                  func |-> 0, blk |-> 0,
                  args |-> <<name, get_ksctype_from_name(stack, name)>>]
    /\ UNCHANGED <<module, blocks, builder, stack_function, stack, ifstack, calls>>

InsertNewType ==
    /\ Len(stack[Len(stack)].types) < MaxScopeTypes
    /\ \E ksctype \in ResolveTypes : stack' = insert_new_type_to_stack(stack, ksctype)
    /\ last' = [op |-> "insert_new_type_to_stack", ok |-> TRUE, err |-> "",
                func |-> 0, blk |-> 0, args |-> <<>>]
    /\ UNCHANGED <<module, blocks, builder, stack_function, ifstack, calls>>

NextResolve == ResolveTypeName \/ InsertNewType

SpecResolve == InitResolve /\ [][NextResolve]_vars

(***************************************************************************)
(* Properties                                                              *)
(***************************************************************************)
Phis(b) == {k \in 1..Len(blocks[b].instrs) : blocks[b].instrs[k].op = "phi"}

BranchesTo(bs, b, target) ==
    \E k \in 1..Len(bs[b].instrs) :
        /\ bs[b].instrs[k].op = "br"
        /\ bs[b].instrs[k].target = target

IfCreatedStep ==
    Len(ifstack') = Len(ifstack) + 1 =>
        LET n == Len(blocks)
            parent == last'.func
        IN  /\ Len(blocks') = n + 3
            /\ blocks'[n + 1].label = "then"
            /\ blocks'[n + 2].label = "else"
            /\ blocks'[n + 3].label = "ifcont"
            /\ Len(module'.functions) = Len(module.functions)
            /\ \A q \in 1..Len(module.functions) :
                 module'.functions[q].blocks =
                     IF q = parent
                     THEN module.functions[q].blocks \o <<n + 1, n + 2, n + 3>>
                     ELSE module.functions[q].blocks

\* The if-expression is merged in the module it was created in.
IfMergedStep ==
    (Len(ifstack') = Len(ifstack) - 1 /\ ~ifstack[Len(ifstack)].stale) =>
        LET fr == ifstack[Len(ifstack)]
            c == fr.cont_block
            phis == {k \in 1..Len(blocks'[c].instrs) : blocks'[c].instrs[k].op = "phi"}
        IN  /\ Len(blocks') = Len(blocks)
            /\ Cardinality(phis) = 1
            /\ \A k \in phis :
                 LET incoming == blocks'[c].instrs[k].incoming
                 IN  /\ Len(incoming) = 2
                     /\ \A e \in 1..2 :
                          /\ blocks'[incoming[e].blk].live
                          /\ BranchesTo(blocks', incoming[e].blk, c)

\* C1: one run of the if-expression protocol appends exactly three blocks
\* (then, else, ifcont, in that order) to one function and, merged in the
\* module it was created in, leaves exactly one phi in the merge block, with
\* two incoming edges, each naming a block that holds the unconditional
\* branch to the merge block.
C1_IfShape == [][IfCreatedStep /\ IfMergedStep]_vars

\* A merge of same-typed values whose then-branch held a nested if-expression:
\* the then edge names the inner merge block.
C1_Witness ==
    /\ last.op = "merge_if_branch" /\ last.ok
    /\ last.args[1].ty = last.args[2].ty
    /\ blocks[last.blk].live
    /\ \E k \in Phis(last.blk) :
         blocks[blocks[last.blk].instrs[k].incoming[1].blk].label = "ifcont"

MergeCursorStep ==
    (Len(ifstack') = Len(ifstack) - 1 /\ ~ifstack[Len(ifstack)].stale) =>
        /\ builder' = ifstack[Len(ifstack)].cont_block
        /\ blocks'[builder'].live
        /\ blocks'[builder'].label = "ifcont"

DefineCursorStep ==
    (last'.op \in {"create_function", "compile_expression"} /\ last'.ok
       /\ Len(stack_function') = Len(stack_function) + 1) =>
        /\ builder' = module'.functions[last'.func].blocks[1]
        /\ blocks'[builder'].live
        /\ blocks'[builder'].label = module'.functions[last'.func].asked

\* C2: when merge_if_branch has returned, for an if-expression merged in the
\* module it was created in, the cursor is in the merge block of that
\* if-expression, and when create_function has returned the cursor is in the
\* entry block of the function it returned.
C2_CursorAfter == [][MergeCursorStep /\ DefineCursorStep]_vars

\* The merge of an if-expression whose else-branch held a nested if-expression.
C2_Witness ==
    /\ last.op = "merge_if_branch" /\ last.ok
    /\ builder = last.blk
    /\ blocks[last.blk].live
    /\ \E k \in Phis(last.blk) :
         blocks[blocks[last.blk].instrs[k].incoming[2].blk].label = "ifcont"

FunctionAddedStep ==
    (/\ Len(stack_function') = Len(stack_function) + 1
     /\ last'.ok
     /\ last'.op \in {"create_function", "create_function_declare",
                      "compile_expression"}) =>
        LET func == last'.func
        IN  /\ Len(module'.functions) = Len(module.functions) + 1
            /\ func = Len(module'.functions)
            /\ \A q \in 1..Len(module.functions) :
                 module'.functions[q] = module.functions[q]
            /\ IF last'.op = "create_function_declare"
               THEN /\ module'.functions[func].blocks = <<>>
                    /\ blocks' = blocks
               ELSE /\ module'.functions[func].blocks = <<Len(blocks) + 1>>
                    /\ Len(blocks') = Len(blocks) + 1

\* C3: right after create_function_declare the function it added has no
\* basic block; right after create_function the function it added has exactly
\* one, and no other function's blocks have changed.
C3_DeclareDefine == [][FunctionAddedStep]_vars

\* A function defined in a module that already holds a function of that name.
C3_Witness ==
    /\ last.op = "create_function" /\ last.ok
    /\ last.func >= 2
    /\ module.functions[last.func].name # module.functions[last.func].asked
    /\ Len(module.functions[last.func].blocks) = 1

\* The binding an innermost-first search returns.
InnermostBinding(stk, name) ==
    LET binding == {i \in 1..Len(stk) : find(stk[i].types, name).some}
    IN  IF binding = {}
        THEN [some |-> FALSE, val |-> NoType]
        ELSE find(stk[CHOOSE i \in binding : \A j \in binding : j <= i].types, name)

\* C4: type-name resolution returns the binding of the innermost scope that
\* binds the name, and reports the type undefined when no scope binds it.
\* (Every reachable scope stack has one scope, so the innermost scope and
\* the outermost are the same one.)
C4_InnermostFirst ==
    last.op = "get_ksctype_from_name" =>
        last.args[2] = InnermostBinding(stack, last.args[1])

\* C5: merge_if_branch fails with a type mismatch whenever the two values'
\* types differ, and a phi it produces has the type of both values.
C5_MergeTypeExact ==
    (last.op = "merge_if_branch" /\ last.err # "Crash") =>
        /\ last.args[1].ty # last.args[2].ty =>
              (~last.ok /\ last.err = "TypeMismatch")
        /\ last.ok =>
              /\ last.args[1].ty = last.args[2].ty
              /\ \A k \in Phis(last.blk) :
                   blocks[last.blk].instrs[k].ty = last.args[1].ty

MixedOperands(args) ==
    {args[1].ty, args[2].ty} = {"i32", "f64"}

\* C6: a binary operator over an Int32 and a Number operand, in either order,
\* fails with a type mismatch and appends no instruction to any block.
C6_MixedOperandsRejected ==
    [][(last'.op = "create_binnary_operator" /\ calls' # calls
          /\ MixedOperands(last'.args)) =>
       (~last'.ok /\ last'.err = "TypeMismatch" /\ blocks' = blocks)]_vars

\* A rejected Int32/Number operation while the cursor is in a live block.
C6_Witness ==
    /\ last.op = "create_binnary_operator" /\ ~last.ok
    /\ last.err = "TypeMismatch"
    /\ MixedOperands(last.args)
    /\ builder # 0 /\ blocks[builder].live

\* C7: a failing create_function, create_function_declare or variable
\* declaration leaves the module, the blocks, the function-name table and
\* the cursor as they were before the call.
C7_ValidationPrecedesEmission ==
    [][(last.ok /\ ~last'.ok
          /\ last'.op \in {"create_function", "create_function_declare",
                           "compile_expression"}) =>
       (/\ module' = module
        /\ blocks' = blocks
        /\ stack_function' = stack_function
        /\ builder' = builder)]_vars

\* C8: create_module on a Compiler that already has a module fails with
\* ModuleAlreadyCreated and leaves the module unchanged.
C8_ModuleCreatedOnce ==
    [][(module.some /\ last'.op = "create_module" /\ calls' # calls) =>
       (~last'.ok /\ last'.err = "ModuleAlreadyCreated" /\ module' = module)]_vars

\* C9: every function name occurs at most once in the function-name table.
C9_NoDuplicateFunction ==
    \A i, j \in 1..Len(stack_function) :
        i # j => stack_function[i] # stack_function[j]

\* C10: a successful function definition pushes exactly one scope and binds
\* every parameter name in it.
C10_DefinePushesScope ==
    [][(Len(stack_function') = Len(stack_function) + 1 /\ last'.ok
          /\ last'.op \in {"create_function", "compile_expression"}) =>
       (/\ Len(stack') = Len(stack) + 1
        /\ Len(stack'[Len(stack')].values) =
              Len(module'.functions[last'.func].params))]_vars

\* The name was declared or defined in the module the Compiler holds.
Declared(m, name) == \E q \in 1..Len(m.functions) : m.functions[q].asked = name

CallStep ==
    (last'.op = "create_function_call" /\ calls' # calls) =>
        LET name == last'.args[1]
            present == module.some /\ Declared(module, name)
        IN  /\ last'.err # "Crash" => (last'.ok <=> present)
            /\ ~present => (last'.err = "UndefinedFunction" /\ blocks' = blocks)
            /\ last'.ok =>
                  /\ module.functions[last'.func].name = name
                  /\ (builder # 0 /\ blocks[builder].live) =>
                        /\ Len(blocks'[builder].instrs) = Len(blocks[builder].instrs) + 1
                        /\ blocks'[builder].instrs[Len(blocks'[builder].instrs)].op = "call"

\* C11: create_function_call resolves its callee exactly when the current
\* module holds a function declared or defined under that name, a call from
\* inside the function's own body included; for any other name it fails with
\* UndefinedFunction and no block changes.
C11_CallResolves == [][CallStep]_vars

Terminators == {"br", "condbr", "ret"}

\* The function whose block list holds block b (0 when none does).
OwnerOf(m, b) ==
    LET owners == {q \in 1..Len(m.functions) :
                     \E k \in 1..Len(m.functions[q].blocks) : m.functions[q].blocks[k] = b}
    IN  IF owners = {} THEN 0 ELSE CHOOSE q \in owners : TRUE

\* C12: when the cursor is in a block of a function (and no function name
\* was registered twice), the blocks create_if_branch creates are appended
\* to that function.
C12_IfBlocksInCurrentFunction ==
    [][(/\ Len(ifstack') = Len(ifstack) + 1
        /\ OwnerOf(module, builder) # 0
        /\ C9_NoDuplicateFunction) =>
         /\ OwnerOf(module', Len(blocks) + 1) = OwnerOf(module, builder)
         /\ OwnerOf(module', Len(blocks) + 2) = OwnerOf(module, builder)
         /\ OwnerOf(module', Len(blocks) + 3) = OwnerOf(module, builder)]_vars

WellTerminated(b) ==
    LET instrs == blocks[b].instrs
    IN  /\ instrs # <<>>
        /\ instrs[Len(instrs)].op \in Terminators
        /\ \A k \in 1..(Len(instrs) - 1) : instrs[k].op \notin Terminators

\* C13: when build has returned without error, every block of every
\* function of the module that has blocks ends with exactly one terminator.
C13_BlocksTerminated ==
    (last.op = "build" /\ last.ok) =>
        \A q \in 1..Len(module.functions) :
            \A k \in 1..Len(module.functions[q].blocks) :
                WellTerminated(module.functions[q].blocks[k])
====
